---- MODULE Spec2Model ----
(***************************************************************************)
(* A model of the sudoku solver: the Pattern bit field (pattern.rs), the   *)
(* constraint propagation engine Possibilities (setup.rs), the template    *)
(* catalog and Solution (template.rs) and prepare / solve (lib.rs).        *)
(*                                                                         *)
(* A Pattern is modelled as the set of positions of its one-bits, position *)
(* 32*w + b being bit b of word w of the [u32; 3].  A Template is its u16  *)
(* index into the catalog.  Rows, columns, boxes and digit indices are     *)
(* 0-based as in the source; the digit argument of set and the entries of  *)
(* an input grid are 1..9 (0 = no clue).                                   *)
(***************************************************************************)
EXTENDS Integers, Sequences, FiniteSets, TLC

(***************************************************************************)
(* pattern.rs                                                              *)
(***************************************************************************)
Idx == 0..8

EMPTY == {}

FULL == 0..80

has(p, row, col) == (9 * row + col) \in p

remove(p, row, col) == p \ {9 * row + col}

with(p, row, col) == p \cup {9 * row + col}

BitAnd(p, q) == p \cap q

BitOr(p, q) == p \cup q

\* Not with every word complemented, the third one without a mask
not_unmasked(p) == (0..95) \ p

\* !p: the first two words are complemented, the third is XORed with
\* 0x1FFFF, which flips its bits 0..16 (positions 64..80) and keeps the rest
Not(p) ==
  ((0..63) \ p) \cup {x \in 64..95 : (x \in p) # (x \in 64..80)}

\* is_subset with the two patterns exchanged
is_superset(p, other) == BitAnd(p, other) = other

is_subset(p, other) == BitAnd(p, other) = p

intersects(p, other) == BitAnd(p, other) # EMPTY

(***************************************************************************)
(* setup.rs: the engine.  An engine value is a record with the fields of   *)
(* struct Possibilities.                                                   *)
(***************************************************************************)
box_cells(row, col) ==
  LET great_row == row \div 3
      great_col == col \div 3
  IN << <<3 * great_row + 0, 3 * great_col + 0>>,
        <<3 * great_row + 0, 3 * great_col + 1>>,
        <<3 * great_row + 0, 3 * great_col + 2>>,
        <<3 * great_row + 1, 3 * great_col + 0>>,
        <<3 * great_row + 1, 3 * great_col + 1>>,
        <<3 * great_row + 1, 3 * great_col + 2>>,
        <<3 * great_row + 2, 3 * great_col + 0>>,
        <<3 * great_row + 2, 3 * great_col + 1>>,
        <<3 * great_row + 2, 3 * great_col + 2>> >>

new ==
  [ patterns         |-> [d \in Idx |-> FULL],
    work_queue       |-> <<>>,
    cell_constraints |-> [r \in Idx |-> [c \in Idx |-> 9]],
    row_constraints  |-> [r \in Idx |-> [d \in Idx |-> 9]],
    col_constraints  |-> [c \in Idx |-> [d \in Idx |-> 9]],
    box_constraints  |-> [b \in Idx |-> [d \in Idx |-> 9]] ]

\* n -= 2 on a u8
dec_by_two(n) == (n + 254) % 256

\* n -= 1 on a u8
Dec(n) == (n + 255) % 256

\* box_of without the factor 3
box_of_flat(row, col) == (row \div 3) + (col \div 3)

\* the index of the box of a cell (boxes are indexed row-major)
box_of(row, col) == (row \div 3) * 3 + (col \div 3)

\* Iterator::find over an ascending range: the least of the indices that
\* pass the test, or the marker NONE when none does
NONE == -1

FirstIn(hits) ==
  IF hits = {} THEN NONE ELSE CHOOSE i \in hits : \A j \in hits : i <= j

find_in_cell(self, row, col) ==
  FirstIn({d \in Idx : has(self.patterns[d], row, col)})

find_in_row(self, row, digit) ==
  FirstIn({col \in Idx : has(self.patterns[digit], row, col)})

find_in_col(self, col, digit) ==
  FirstIn({row \in Idx : has(self.patterns[digit], row, col)})

find_in_box(self, row, col, digit) ==
  LET at(i) == IF i = NONE THEN <<NONE, NONE>> ELSE box_cells(row, col)[i]
  IN at(FirstIn({j \in 1..9 : LET rc == box_cells(row, col)[j]
                              IN has(self.patterns[digit], rc[1], rc[2])}))

enqueue(self, row, col, digit) ==
  [self EXCEPT !.work_queue = Append(@, <<row, col, digit>>)]

\* enqueue_others over the digits 1..8 in place of 0..8
enqueue_others_from_1(self, row, col, digit) ==
  [self EXCEPT !.work_queue =
     @ \o SelectSeq([i \in 1..8 |-> <<row, col, i>>], LAMBDA e : e[3] # digit)]

enqueue_others(self, row, col, digit) ==
  [self EXCEPT !.work_queue =
     @ \o SelectSeq([i \in 1..9 |-> <<row, col, i - 1>>], LAMBDA e : e[3] # digit)]

\* enqueue_adjacent without the filters that leave out the cell itself
enqueue_adjacent_with_self(self, row, col, digit) ==
  [self EXCEPT !.work_queue =
     @ \o [i \in 1..9 |-> <<row, i - 1, digit>>]
       \o [i \in 1..9 |-> <<i - 1, col, digit>>]
       \o [i \in 1..9 |-> <<box_cells(row, col)[i][1], box_cells(row, col)[i][2], digit>>]]

\* enqueue_adjacent without the cells of the box
enqueue_adjacent_no_box(self, row, col, digit) ==
  [self EXCEPT !.work_queue =
     @ \o SelectSeq([i \in 1..9 |-> <<row, i - 1, digit>>], LAMBDA e : e[2] # col)
       \o SelectSeq([i \in 1..9 |-> <<i - 1, col, digit>>], LAMBDA e : e[1] # row)]

\* enqueue_adjacent without the cells of the row
enqueue_adjacent_no_row(self, row, col, digit) ==
  [self EXCEPT !.work_queue =
     @ \o SelectSeq([i \in 1..9 |-> <<i - 1, col, digit>>], LAMBDA e : e[1] # row)
       \o SelectSeq([i \in 1..9 |-> <<box_cells(row, col)[i][1], box_cells(row, col)[i][2], digit>>],
                    LAMBDA e : e[1] # row \/ e[2] # col)]

enqueue_adjacent(self, row, col, digit) ==
  [self EXCEPT !.work_queue =
     @ \o SelectSeq([i \in 1..9 |-> <<row, i - 1, digit>>], LAMBDA e : e[2] # col)
       \o SelectSeq([i \in 1..9 |-> <<i - 1, col, digit>>], LAMBDA e : e[1] # row)
       \o SelectSeq([i \in 1..9 |-> <<box_cells(row, col)[i][1], box_cells(row, col)[i][2], digit>>],
                    LAMBDA e : e[1] # row \/ e[2] # col)]

\* The result of a call: the engine afterwards and "ok" (Ok(())), "err"
\* (Err(ImpossiblePuzzle)) or "panic" (an expect of find_in_* failed).
Ret(self, res) == [self |-> self, res |-> res]

\* eliminate, the box counter: decrement, Err at 0, enqueue_others of the
\* cell found at 1.  (In each of the four stages the engine after the
\* decrement is bound as a value, so that it is computed once.)
eliminate_box(self, row, col, digit) ==
  LET counted(s4) ==
        LET n4 == s4.box_constraints[box_of(row, col)][digit]
            found(f4) ==
              IF f4[1] = NONE THEN Ret(s4, "panic")
              ELSE Ret(enqueue_others(s4, f4[1], f4[2], digit), "ok")
        IN IF n4 = 0 THEN Ret(s4, "err")
           ELSE IF n4 = 1 THEN found(find_in_box(s4, row, col, digit))
           ELSE Ret(s4, "ok")
  IN CHOOSE r \in {counted(s) : s \in {[self EXCEPT !.box_constraints[box_of(row, col)][digit] = Dec(@)]}} : TRUE

\* eliminate, the column counter and what follows it
eliminate_col(self, row, col, digit) ==
  LET counted(s3) ==
        LET n3 == s3.col_constraints[col][digit]
            found(f3) ==
              IF f3 = NONE THEN Ret(s3, "panic")
              ELSE eliminate_box(enqueue_others(s3, f3, col, digit), row, col, digit)
        IN IF n3 = 0 THEN Ret(s3, "err")
           ELSE IF n3 = 1 THEN found(find_in_col(s3, col, digit))
           ELSE eliminate_box(s3, row, col, digit)
  IN CHOOSE r \in {counted(s) : s \in {[self EXCEPT !.col_constraints[col][digit] = Dec(@)]}} : TRUE

\* eliminate, the row counter and what follows it
eliminate_row(self, row, col, digit) ==
  LET counted(s2) ==
        LET n2 == s2.row_constraints[row][digit]
            found(f2) ==
              IF f2 = NONE THEN Ret(s2, "panic")
              ELSE eliminate_col(enqueue_others(s2, row, f2, digit), row, col, digit)
        IN IF n2 = 0 THEN Ret(s2, "err")
           ELSE IF n2 = 1 THEN found(find_in_row(s2, row, digit))
           ELSE eliminate_col(s2, row, col, digit)
  IN CHOOSE r \in {counted(s) : s \in {[self EXCEPT !.row_constraints[row][digit] = Dec(@)]}} : TRUE

\* eliminate, the cell counter and what follows it
eliminate_cell(self, row, col, digit) ==
  LET counted(s1) ==
        LET n1 == s1.cell_constraints[row][col]
            found(f1) ==
              IF f1 = NONE THEN Ret(s1, "panic")
              ELSE eliminate_row(enqueue_adjacent(s1, row, col, f1), row, col, digit)
        IN IF n1 = 0 THEN Ret(s1, "err")
           ELSE IF n1 = 1 THEN found(find_in_cell(s1, row, col))
           ELSE eliminate_row(s1, row, col, digit)
  IN CHOOSE r \in {counted(s) : s \in {[self EXCEPT !.cell_constraints[row][col] = Dec(@)]}} : TRUE

\* eliminate without the test of the bit that remove returns
eliminate_unchecked(self, row, col, digit) ==
  eliminate_cell([self EXCEPT !.patterns[digit] = remove(@, row, col)],
                 row, col, digit)

eliminate(self, row, col, digit) ==
  IF ~has(self.patterns[digit], row, col) THEN Ret(self, "ok")
  ELSE eliminate_cell([self EXCEPT !.patterns[digit] = remove(@, row, col)],
                      row, col, digit)

\* work_iter reading the last entry and leaving it in the queue
work_iter_no_pop(st) ==
  IF st.res # "run" THEN st
  ELSE IF st.self.work_queue = <<>> THEN Ret(st.self, "ok")
  ELSE LET q == st.self.work_queue
           read(e, self) ==
             LET after(r) == IF r.res = "ok" THEN Ret(r.self, "run") ELSE r
             IN after(eliminate(self, e[1], e[2], e[3]))
       IN read(q[Len(q)], st.self)

\* One iteration of the loop of work: pop the last entry and eliminate it.
\* res = "run" while the loop is still going.
work_iter(st) ==
  IF st.res # "run" THEN st
  ELSE IF st.self.work_queue = <<>> THEN Ret(st.self, "ok")
  ELSE LET q == st.self.work_queue
           popped(e, self) ==
             LET after(r) == IF r.res = "ok" THEN Ret(r.self, "run") ELSE r
             IN after(eliminate(self, e[1], e[2], e[3]))
       IN popped(q[Len(q)], [st.self EXCEPT !.work_queue = SubSeq(q, 1, Len(q) - 1)])

\* The while loop of work: work_iter is repeated until it stops.  The
\* repetition is arranged in blocks of 2^n iterations so that the depth of
\* evaluation grows with the logarithm of the number of iterations.
RECURSIVE work_block(_, _)
work_block(st, n) ==
  IF n = 0 THEN work_iter(st)
  ELSE LET then(h) == IF h.res # "run" THEN h ELSE work_block(h, n - 1)
       IN then(work_block(st, n - 1))

RECURSIVE work_loop(_, _)
work_loop(st, n) ==
  LET then(h) == IF h.res # "run" THEN h ELSE work_loop(h, n + 1)
  IN then(work_block(st, n))

work(self) == work_loop(Ret(self, "run"), 0)

\* set returning Ok at once for a cell that has a single candidate left
set_unless_decided(self, row, col, digit) ==
  IF self.cell_constraints[row][col] = 1 THEN Ret(self, "ok")
  ELSE work(enqueue_others(self, row, col, digit - 1))

\* set refusing a cell that has a single candidate left
set_once(self, row, col, digit) ==
  IF self.cell_constraints[row][col] = 1 THEN Ret(self, "err")
  ELSE work(enqueue_others(self, row, col, digit - 1))

set(self, row, col, digit) ==
  work(enqueue_others(self, row, col, digit - 1))

(***************************************************************************)
(* template.rs: the catalog, Template and Solution.                        *)
(***************************************************************************)
\* fill of Template::all: the patterns pushed, in the order of the pushes.
\* cols and boxes are the u16 usage masks, as the sets of their one-bits.
\* fill with the loop over the columns ending one column early
RECURSIVE fill_short(_, _, _, _)
fill_short(build, cols, boxes, row) ==
  IF row = 9 THEN <<build>>
  ELSE LET pushed(col) ==
             LET box_idx == (row \div 3) * 3 + (col \div 3)
             IN IF col \notin cols /\ box_idx \notin boxes
                THEN fill_short(with(build, row, col), cols \cup {col},
                                boxes \cup {box_idx}, row + 1)
                ELSE <<>>
       IN pushed(0) \o pushed(1) \o pushed(2) \o pushed(3) \o pushed(4)
            \o pushed(5) \o pushed(6) \o pushed(7)

RECURSIVE fill(_, _, _, _)
fill(build, cols, boxes, row) ==
  IF row = 9 THEN <<build>>
  ELSE LET pushed(col) ==
             LET box_idx == (row \div 3) * 3 + (col \div 3)
             IN IF col \notin cols /\ box_idx \notin boxes
                THEN fill(with(build, row, col), cols \cup {col},
                          boxes \cup {box_idx}, row + 1)
                ELSE <<>>
       IN pushed(0) \o pushed(1) \o pushed(2) \o pushed(3) \o pushed(4)
            \o pushed(5) \o pushed(6) \o pushed(7) \o pushed(8)

\* Template::all(): the catalog; entry i of the array is all[i + 1]
all == fill(EMPTY, {}, {}, 0)

\* the array length N of [Pattern; N]
CatalogLen == 46656

\* leak_vec_as_array::<T, N>(vec) panics when assert!(vec.len() == N) fails
leak_vec_as_array_panics(vec, N) == Len(vec) # N

all_panics == leak_vec_as_array_panics(all, CatalogLen)

as_pattern(template) == all[template + 1]

\* Template::within: the indices of the catalog entries that are subsets of
\* possible, in catalog order (index as u16)
within(possible) ==
  SelectSeq([i \in 1..Len(all) |-> (i - 1) % 65536],
            LAMBDA t : is_subset(all[t + 1], possible))

\* A Solution is the array of its nine templates, indexed by digit 0..8.
DefaultSolution == [d \in Idx |-> 0]

RECURSIVE is_valid_from(_, _, _)
is_valid_from(solution, digit, filled) ==
  IF digit = 9 THEN TRUE
  ELSE IF intersects(as_pattern(solution[digit]), filled) THEN FALSE
  ELSE is_valid_from(solution, digit + 1,
                     BitOr(filled, as_pattern(solution[digit])))

is_valid(solution) == is_valid_from(solution, 0, EMPTY)

\* Solution::cell: the digit 1..9 of a cell, or NONE for panic!("empty cell")
cell(solution, row, col) ==
  LET digit_of(d) == IF d = NONE THEN NONE ELSE d + 1
  IN digit_of(FirstIn({digit \in Idx : has(as_pattern(solution[digit]), row, col)}))

to_grid(solution) == [i \in 1..81 |-> cell(solution, (i - 1) \div 9, (i - 1) % 9)]

\* Display for Solution: fmt_panics when assert!(self.is_valid()) or the
\* panic of cell stops the formatting, fmt the 81 digits written otherwise
fmt_panics(solution) ==
  \/ ~is_valid(solution)
  \/ \E i \in 1..81 : to_grid(solution)[i] = NONE

fmt(solution) == to_grid(solution)

(***************************************************************************)
(* setup.rs: unique                                                        *)
(***************************************************************************)
\* Option<Solution>
Some(solution) == [some |-> TRUE, value |-> solution]

None == [some |-> FALSE, value |-> DefaultSolution]

RECURSIVE unique_from(_, _, _)
unique_from(self, solution, digit) ==
  IF digit = 9
  THEN IF is_valid(solution) THEN Some(solution) ELSE None
  ELSE LET next(iter) ==
             IF Len(iter) = 0 THEN None
             ELSE IF Len(iter) > 1 THEN None
             ELSE unique_from(self, [solution EXCEPT ![digit] = iter[1]], digit + 1)
       IN next(within(self.patterns[digit]))

\* unique taking, for every digit, the first template within the pattern
\* that fits with the templates taken so far, without looking for a second
RECURSIVE unique_any_from(_, _, _, _)
unique_any_from(self, solution, filled, digit) ==
  IF digit = 9 THEN Some(solution)
  ELSE LET next(iter) ==
             IF Len(iter) = 0 THEN None
             ELSE unique_any_from(self, [solution EXCEPT ![digit] = iter[1]],
                                  BitOr(filled, as_pattern(iter[1])), digit + 1)
       IN next(SelectSeq(within(self.patterns[digit]),
                         LAMBDA t : ~intersects(as_pattern(t), filled)))

unique_any(self) == unique_any_from(self, DefaultSolution, EMPTY, 0)

\* unique with the loop over the digits starting at 1
unique_from_1(self) == unique_from(self, DefaultSolution, 1)

unique(self) == unique_from(self, DefaultSolution, 0)

(***************************************************************************)
(* lib.rs: prepare and solve.  An input grid is the sequence of its 81     *)
(* entries in row-major order, entry i of the source being puzzle[i + 1].  *)
(***************************************************************************)
\* The loop over the cells that prepare and solve share: set every clue in
\* row-major order, stopping at the first call that does not return Ok.
\* st.cell is the cell the loop is at and st.res is "run" while it runs;
\* the loop is arranged in blocks of 2^n iterations as for work.
\* set_clues_iter with row and column exchanged
set_clues_iter_swapped(st, puzzle) ==
  IF st.res # "run" THEN st
  ELSE IF st.cell = 81 THEN [st EXCEPT !.res = "ok"]
  ELSE IF puzzle[st.cell + 1] = 0 THEN [st EXCEPT !.cell = @ + 1]
  ELSE LET after(r) ==
             IF r.res = "ok"
             THEN [self |-> r.self, res |-> "run", cell |-> st.cell + 1]
             ELSE [self |-> r.self, res |-> r.res, cell |-> st.cell]
       IN after(set(st.self, st.cell % 9, st.cell \div 9, puzzle[st.cell + 1]))

set_clues_iter(st, puzzle) ==
  IF st.res # "run" THEN st
  ELSE IF st.cell = 81 THEN [st EXCEPT !.res = "ok"]
  ELSE IF puzzle[st.cell + 1] = 0 THEN [st EXCEPT !.cell = @ + 1]
  ELSE LET after(r) ==
             IF r.res = "ok"
             THEN [self |-> r.self, res |-> "run", cell |-> st.cell + 1]
             ELSE [self |-> r.self, res |-> r.res, cell |-> st.cell]
       IN after(set(st.self, st.cell \div 9, st.cell % 9, puzzle[st.cell + 1]))

RECURSIVE set_clues_block(_, _, _)
set_clues_block(st, puzzle, n) ==
  IF n = 0 THEN set_clues_iter(st, puzzle)
  ELSE LET then(h) == IF h.res # "run" THEN h ELSE set_clues_block(h, puzzle, n - 1)
       IN then(set_clues_block(st, puzzle, n - 1))

RECURSIVE set_clues_loop(_, _, _)
set_clues_loop(st, puzzle, n) ==
  LET then(h) == IF h.res # "run" THEN h ELSE set_clues_loop(h, puzzle, n + 1)
  IN then(set_clues_block(st, puzzle, n))

set_clues(self, puzzle) ==
  set_clues_loop([self |-> self, res |-> "run", cell |-> 0], puzzle, 0)

prepare(input) == set_clues(new, input)

\* templates.sort_by_key(len): a stable sort, so digits with equally many
\* templates stay in digit order
sort_by_key(templates) ==
  LET before(a, b) == \/ Len(a[2]) < Len(b[2])
                      \/ Len(a[2]) = Len(b[2]) /\ a[1] < b[1]
      rank(a) == Cardinality({j \in 1..Len(templates) : before(templates[j], a)})
  IN [k \in 1..Len(templates) |->
        templates[CHOOSE j \in 1..Len(templates) : rank(templates[j]) = k - 1]]

\* search: st holds out (the solutions recorded) and solution (the scratch
\* buffer).  The for loop visits the templates of possible that do not
\* intersect filled (the others are skipped by continue, filled being the
\* same in every iteration); search_iter is one visit, at position st.i of
\* those templates, st.go telling whether the loop is still running.  The
\* loop is arranged in blocks of 2^n iterations as for work.
RECURSIVE search(_, _, _, _)
\* search_iter without the test for templates that intersect filled
search_iter_no_skip(st, filled, templates, max_solutions) ==
  LET digit == templates[1][1]
      visit(visited) ==
        LET after(r) ==
              IF Len(r.out) >= max_solutions
              THEN [out |-> r.out, solution |-> r.solution, i |-> st.i, go |-> FALSE]
              ELSE [out |-> r.out, solution |-> r.solution, i |-> st.i + 1, go |-> TRUE]
        IN IF st.i > Len(visited) THEN [st EXCEPT !.go = FALSE]
           ELSE after(search([out |-> st.out,
                              solution |-> [st.solution EXCEPT ![digit] = visited[st.i]]],
                             BitOr(filled, as_pattern(visited[st.i])),
                             Tail(templates), max_solutions))
  IN IF ~st.go THEN st
     ELSE visit(templates[1][2])

\* search_iter comparing out.len() with > in place of >=
search_iter_gt(st, filled, templates, max_solutions) ==
  LET digit == templates[1][1]
      visit(visited) ==
        LET after(r) ==
              IF Len(r.out) > max_solutions
              THEN [out |-> r.out, solution |-> r.solution, i |-> st.i, go |-> FALSE]
              ELSE [out |-> r.out, solution |-> r.solution, i |-> st.i + 1, go |-> TRUE]
        IN IF st.i > Len(visited) THEN [st EXCEPT !.go = FALSE]
           ELSE after(search([out |-> st.out,
                              solution |-> [st.solution EXCEPT ![digit] = visited[st.i]]],
                             BitOr(filled, as_pattern(visited[st.i])),
                             Tail(templates), max_solutions))
  IN IF ~st.go THEN st
     ELSE visit(SelectSeq(templates[1][2], LAMBDA t : ~intersects(as_pattern(t), filled)))

\* one iteration of the for loop of search
search_iter(st, filled, templates, max_solutions) ==
  LET digit == templates[1][1]
      visit(visited) ==
        LET after(r) ==
              IF Len(r.out) >= max_solutions
              THEN [out |-> r.out, solution |-> r.solution, i |-> st.i, go |-> FALSE]
              ELSE [out |-> r.out, solution |-> r.solution, i |-> st.i + 1, go |-> TRUE]
        IN IF st.i > Len(visited) THEN [st EXCEPT !.go = FALSE]
           ELSE after(search([out |-> st.out,
                              solution |-> [st.solution EXCEPT ![digit] = visited[st.i]]],
                             BitOr(filled, as_pattern(visited[st.i])),
                             Tail(templates), max_solutions))
  IN IF ~st.go THEN st
     ELSE visit(SelectSeq(templates[1][2], LAMBDA t : ~intersects(as_pattern(t), filled)))

RECURSIVE search_block(_, _, _, _, _)
search_block(st, filled, templates, max_solutions, n) ==
  IF n = 0 THEN search_iter(st, filled, templates, max_solutions)
  ELSE LET then(h) ==
             IF ~h.go THEN h
             ELSE search_block(h, filled, templates, max_solutions, n - 1)
       IN then(search_block(st, filled, templates, max_solutions, n - 1))

RECURSIVE search_loop(_, _, _, _, _)
search_loop(st, filled, templates, max_solutions, n) ==
  LET then(h) ==
        IF ~h.go THEN h ELSE search_loop(h, filled, templates, max_solutions, n + 1)
  IN then(search_block(st, filled, templates, max_solutions, n))

search(st, filled, templates, max_solutions) ==
  IF templates = <<>>
  THEN [out |-> Append(st.out, st.solution), solution |-> st.solution]
  ELSE LET done(l) == [out |-> l.out, solution |-> l.solution]
       IN done(search_loop([out |-> st.out, solution |-> st.solution,
                            i |-> 1, go |-> TRUE],
                           filled, templates, max_solutions, 0))

\* The first phase of solve: the clues are set and the templates of every
\* digit are collected and sorted.  res is "err" when a set call failed
\* (solve then returns no solutions) and "panic" if one panicked.
solve_templates(puzzle) ==
  LET from(p) ==
        LET t(digit) == <<digit, within(p.self.patterns[digit])>>
        IN IF p.res # "ok" THEN [res |-> p.res, templates |-> <<>>]
           ELSE [res |-> "ok",
                 templates |-> sort_by_key(<<t(0), t(1), t(2), t(3), t(4),
                                             t(5), t(6), t(7), t(8)>>)]
  IN from(set_clues(new, puzzle))

\* The second phase of solve: the search and the formatting.  res = "panic"
\* when the call panics, and otherwise strings is the Vec<String> returned,
\* each string the sequence of its 81 digits; solutions is the Vec<Solution>
\* the strings are made from.
solve_search(prepared, max_solutions) ==
  LET format(solutions) ==
        IF \/ prepared.res = "panic"
           \/ \E k \in 1..Len(solutions) : fmt_panics(solutions[k])
        THEN [res |-> "panic", solutions |-> solutions, strings |-> <<>>]
        ELSE [res |-> "ok", solutions |-> solutions,
              strings |-> [k \in 1..Len(solutions) |-> fmt(solutions[k])]]
  IN format(IF prepared.res # "ok" THEN <<>>
            ELSE search([out |-> <<>>, solution |-> DefaultSolution],
                        EMPTY, prepared.templates, max_solutions).out)

solve(puzzle, max_solutions) == solve_search(solve_templates(puzzle), max_solutions)

(***************************************************************************)
(* The rules of Sudoku, stated on grids directly and independently of the  *)
(* patterns, counters and templates of the program: the reference the      *)
(* program is compared with.                                               *)
(***************************************************************************)
RowOf(i) == (i - 1) \div 9

ColOf(i) == (i - 1) % 9

BoxOf(i) == (RowOf(i) \div 3) * 3 + (ColOf(i) \div 3)

\* the cells that share a row, a column or a box with cell i
Peers == [i \in 1..81 |->
            {j \in 1..81 : /\ j # i
                           /\ \/ RowOf(j) = RowOf(i)
                              \/ ColOf(j) = ColOf(i)
                              \/ BoxOf(j) = BoxOf(i)}]

Conflict(g, i, d) == \E j \in Peers[i] : g[j] = d

\* g is a completed grid obeying the rules
ValidGrid(g) ==
  /\ \A i \in 1..81 : g[i] \in 1..9
  /\ \A i \in 1..81 : ~Conflict(g, i, g[i])

\* h agrees with every clue of g
Agrees(h, g) == \A i \in 1..81 : g[i] # 0 => h[i] = g[i]

\* The valid completions of g, at most cap of them, found by the odometer
\* search over the empty cells of g in row-major order: st.g is g with the
\* first st.k - 1 empty cells filled without conflict and the rest empty.
\* A step moves the digit of empty cell number st.k to the next one that
\* conflicts with nothing and goes on to the next cell, or empties the cell
\* and goes back when there is none; past the last cell st.g is recorded.
Holes(g) == {i \in 1..81 : g[i] = 0}

NthHole(g, k) == CHOOSE i \in Holes(g) : Cardinality({j \in Holes(g) : j < i}) = k - 1

CompleteDone(st, cap) == st.k = 0 \/ Len(st.found) >= cap

CompleteStep(g0, st, cap) ==
  IF CompleteDone(st, cap) THEN st
  ELSE IF st.k > Cardinality(Holes(g0))
       THEN [st EXCEPT !.found = Append(@, st.g), !.k = @ - 1]
  ELSE LET i     == NthHole(g0, st.k)
           cands == {d \in 1..9 : d > st.g[i] /\ ~Conflict(st.g, i, d)}
       IN IF cands = {}
          THEN [st EXCEPT !.g[i] = 0, !.k = @ - 1]
          ELSE [st EXCEPT !.g[i] = CHOOSE d \in cands : \A e \in cands : d <= e,
                          !.k = @ + 1]

RECURSIVE CompleteBlock(_, _, _, _)
CompleteBlock(g0, st, cap, n) ==
  IF n = 0 THEN CompleteStep(g0, st, cap)
  ELSE LET h == CompleteBlock(g0, st, cap, n - 1)
       IN IF CompleteDone(h, cap) THEN h ELSE CompleteBlock(g0, h, cap, n - 1)

RECURSIVE CompleteLoop(_, _, _, _)
CompleteLoop(g0, st, cap, n) ==
  LET h == CompleteBlock(g0, st, cap, n)
  IN IF CompleteDone(h, cap) THEN h ELSE CompleteLoop(g0, h, cap, n + 1)

Completions(g, cap) ==
  IF \E i \in 1..81 : g[i] # 0 /\ Conflict(g, i, g[i]) THEN <<>>
  ELSE CompleteLoop(g, [g |-> g, k |-> 1, found |-> <<>>], cap, 0).found

(***************************************************************************)
(* Inputs.  Solved is a completed grid; the input grids are Solved with    *)
(* some cells emptied and possibly one cell overwritten, and some sparse   *)
(* grids.                                                                  *)
(***************************************************************************)
Solved ==
  << 8,1,2, 7,5,3, 6,4,9,
     9,4,3, 6,8,2, 1,7,5,
     6,7,5, 4,9,1, 2,8,3,
     1,5,4, 2,3,7, 8,9,6,
     3,6,9, 8,4,5, 7,2,1,
     2,8,7, 1,6,9, 5,3,4,
     5,2,1, 9,7,4, 3,6,8,
     4,3,8, 5,2,6, 9,1,7,
     7,9,6, 3,1,8, 4,5,2 >>

NoClues == [i \in 1..81 |-> 0]

At(row, col) == 9 * row + col + 1

Blank(g, holes) == [i \in 1..81 |-> IF i \in holes THEN 0 ELSE g[i]]

Put(g, i, d) == [g EXCEPT ![i] = d]

\* four cells of Solved whose digits can be swapped, and more such cells
RectA == {At(0, 2), At(0, 5), At(1, 2), At(1, 5)}

RectB == {At(1, 5), At(1, 6), At(2, 5), At(2, 6)}

RectC == {At(3, 0), At(3, 3), At(5, 0), At(5, 3)}

RectD == {At(7, 2), At(7, 5), At(8, 2), At(8, 5)}

\* the benchmark puzzle of benches/solve_17.rs (17 clues)
Bench17 ==
  << 0,0,0, 0,0,0, 0,1,0,
     0,0,0, 0,0,2, 0,0,3,
     0,0,0, 4,0,0, 0,0,0,
     0,0,0, 0,0,0, 5,0,0,
     4,0,1, 6,0,0, 0,0,0,
     0,0,7, 1,0,0, 0,0,0,
     0,5,0, 0,0,0, 2,0,0,
     0,0,0, 0,8,0, 0,4,0,
     0,3,0, 9,1,0, 0,0,0 >>

\* Solved with 23 cells emptied: Solved is its only completion
Hard23 ==
  << 8,1,2, 7,5,3, 6,4,9,
     9,4,3, 6,8,2, 1,7,5,
     6,7,5, 4,9,1, 2,8,3,
     1,5,4, 0,0,7, 8,0,6,
     0,0,0, 0,4,5, 7,0,1,
     0,0,0, 1,6,0, 5,3,4,
     5,0,1, 0,7,4, 0,6,8,
     4,0,8, 5,0,0, 0,1,7,
     0,9,0, 0,1,0, 4,5,2 >>

\* a grid with 30 empty cells and no completion
Stuck30 ==
  << 8,0,0, 7,3,0, 6,0,0,
     0,0,3, 6,5,0, 0,7,0,
     0,7,0, 4,9,0, 2,0,3,
     3,5,0, 2,0,7, 0,0,0,
     0,0,0, 3,4,5, 7,0,2,
     0,0,0, 1,0,9, 5,3,0,
     5,2,1, 9,7,4, 3,6,8,
     4,3,8, 5,2,6, 9,1,7,
     0,9,0, 8,1,3, 4,2,5 >>

\* the same digit twice in a row, in a column, in a box
DupRow == Put(Put(NoClues, At(0, 0), 5), At(0, 3), 5)

DupCol == Put(Put(NoClues, At(1, 4), 7), At(6, 4), 7)

DupBox == Put(Put(NoClues, At(3, 3), 2), At(4, 5), 2)

(***************************************************************************)
(* Bounds of the model.                                                    *)
(***************************************************************************)
\* max_solutions ranges over 0..MaxMaxSolutions
MaxMaxSolutions == 3

\* how many of Bases and of Puts make the input grids of SolveSpec
NumBases == 5

NumPuts == 3

\* how many set calls besides the clues of the puzzle a behaviour makes
MaxExtra == 1

\* the reference search is used on grids with at most MaxHoles empty cells
MaxHoles == 30

Bases ==
  << Blank(Solved, RectA),
     Blank(Solved, RectA \cup RectC \cup RectD),
     Hard23,
     Stuck30,
     Solved,
     Blank(Solved, RectA \cup RectB),
     Blank(Solved, RectA \cup RectC) >>

\* <<cell, digit>> written over a base grid; cell 0 writes nothing
Puts == << <<0, 0>>, <<At(0, 2), 3>>, <<At(8, 8), 1>>, <<At(4, 4), 1>>, <<At(0, 5), 2>> >>

PutOn(g, put) == IF put[1] = 0 THEN g ELSE Put(g, put[1], put[2])

SolveGrids ==
  {PutOn(Bases[b], Puts[q]) : b \in 1..NumBases, q \in 1..NumPuts}
    \cup {NoClues, DupRow, DupCol, DupBox}

\* the puzzles whose clues are entered set call by set call
Puzzles ==
  {Bench17, Hard23, Stuck30, Blank(Solved, RectA),
   Put(Blank(Solved, RectA), At(8, 8), 1), DupRow, DupCol, DupBox}

Orders == {"row_major", "reverse"}

\* set calls made besides the clues of the puzzle: <<row, col, digit>>
ExtraCalls == { <<0, 0, 5>>, <<0, 3, 5>>, <<4, 4, 4>>, <<8, 8, 2>> }

(***************************************************************************)
(* The state machine.                                                      *)
(***************************************************************************)
VARIABLES
  puzzle,         \* the input grid
  order,          \* the order in which the caller enters its clues
  phase,          \* "new", "setting", "prepared" or "solved"
  possibilities,  \* the engine: a Possibilities value
  entered,        \* how many clues of puzzle have been passed to set
  extras,         \* how many other set calls have been made
  calls,          \* every <<row, col, digit>> passed to set so far
  last_call,      \* the arguments of the last set call and what held before it
  result,         \* what the last set or prepare returned
  failed,         \* some set call did not return Ok
  unique_out,     \* what unique() returned, once called
  solve_out       \* what solve returned, once called

\* the state of the other specifications of this module, which look at the
\* catalog alone
VARIABLES
  layout,         \* a layout of one digit being put together row by row
  pattern,        \* a Pattern value a caller computes with
  operand,        \* a second Pattern value, kept for & and |
  steps,          \* how many Pattern operations the caller has made
  yielded,        \* what Template::within(pattern) yielded, once called
  ALL,            \* the static OnceLock of Template::all
  threads,        \* the threads that call Template::all: where each one is
  runs            \* how many times the closure of get_or_init was started

solver_vars == <<puzzle, order, phase, possibilities, entered, extras, calls,
                 last_call, result, failed, unique_out, solve_out>>

once_vars == <<ALL, threads, runs>>

other_vars == <<layout, pattern, operand, steps, yielded, once_vars>>

vars == <<solver_vars, other_vars>>

NoLayout == [build |-> EMPTY, row |-> 0]

NotYielded == [called |-> FALSE, templates |-> <<>>]

\* OnceLock::new(): no value yet
Uninitialised == [state |-> "incomplete", value |-> NONE]

\* a thread that has not called Template::all.  col is the column the
\* outermost loop of fill is at in the closure the thread runs: the Vec of
\* the closure then holds what fill pushed for the columns before col.  An
\* array is named by the number of columns it was made from (NONE: no
\* array), which is what seen, the array the last call returned, holds.
NotStarted == [pc |-> "idle", col |-> 0, seen |-> NONE, calls |-> 0]

OnceIdle ==
  /\ ALL = Uninitialised
  /\ threads = <<>>
  /\ runs = 0

OthersIdle ==
  /\ layout = NoLayout
  /\ pattern = EMPTY
  /\ operand = EMPTY
  /\ steps = 0
  /\ yielded = NotYielded
  /\ OnceIdle

NoCall == [made |-> FALSE, row |-> 0, col |-> 0, digit |-> 0,
           had |-> FALSE, forced |-> FALSE, failed_before |-> FALSE]

NotCalled == [called |-> FALSE, ret |-> None]

NotSolved == [called |-> FALSE, max_solutions |-> 0, res |-> "ok",
              solutions |-> <<>>, strings |-> <<>>]

SolverInitWith(grids) ==
  /\ puzzle \in grids
  /\ order \in Orders
  /\ phase = "new"
  /\ possibilities = new
  /\ entered = 0
  /\ extras = 0
  /\ calls = {}
  /\ last_call = NoCall
  /\ result = "none"
  /\ failed = FALSE
  /\ unique_out = NotCalled
  /\ solve_out = NotSolved

\* the solver, not in use
SolverIdle == SolverInitWith({NoClues}) /\ order = "row_major"

InitWith(grids) == SolverInitWith(grids) /\ OthersIdle

Init == InitWith(Puzzles)

SolveInit == InitWith(SolveGrids) /\ order = "row_major"

ClueCells(g) == {i \in 1..81 : g[i] # 0}

\* the k-th clue cell of g in the given order
NthClue(g, ord, k) ==
  CHOOSE i \in ClueCells(g) :
    Cardinality({j \in ClueCells(g) : IF ord = "row_major" THEN j < i ELSE j > i}) = k - 1

\* the candidates of a cell: the digits 0..8 whose pattern has it
Candidates(self, row, col) == {d \in Idx : has(self.patterns[d], row, col)}

\* a call possibilities.set(row, col, digit)
DoSet(row, col, digit) ==
  \E r \in {set(possibilities, row, col, digit)} :
     /\ possibilities' = r.self
     /\ result' = r.res
     /\ failed' = (failed \/ r.res # "ok")
     /\ calls' = calls \cup {<<row, col, digit>>}
     /\ last_call' = [made |-> TRUE, row |-> row, col |-> col, digit |-> digit,
                      had |-> (digit - 1) \in Candidates(possibilities, row, col),
                      forced |-> Candidates(possibilities, row, col) = {digit - 1},
                      failed_before |-> failed]
     /\ unique_out' = NotCalled
     /\ phase' = "setting"
     /\ UNCHANGED <<puzzle, order, solve_out>>
     /\ UNCHANGED other_vars

\* the caller enters the next clue of its puzzle; an engine is not used for
\* further set calls once a call has failed
SetClue ==
  /\ phase \in {"new", "setting"}
  /\ ~failed
  /\ entered < Cardinality(ClueCells(puzzle))
  /\ LET i == NthClue(puzzle, order, entered + 1)
     IN DoSet(RowOf(i), ColOf(i), puzzle[i])
  /\ entered' = entered + 1
  /\ UNCHANGED extras

\* the caller makes another set call
SetExtra ==
  /\ phase \in {"new", "setting"}
  /\ ~failed
  /\ extras < MaxExtra
  /\ \E e \in ExtraCalls : DoSet(e[1], e[2], e[3])
  /\ extras' = extras + 1
  /\ UNCHANGED entered

\* the caller asks for the unique solution once its clues are in
Unique ==
  /\ \/ phase = "prepared"
     \/ phase \in {"new", "setting"} /\ entered = Cardinality(ClueCells(puzzle))
  /\ result # "panic"
  /\ ~unique_out.called
  /\ unique_out' = [called |-> TRUE, ret |-> unique(possibilities)]
  /\ UNCHANGED <<puzzle, order, phase, possibilities, entered, extras, calls,
                 last_call, result, failed, solve_out>>
  /\ UNCHANGED other_vars

\* prepare(puzzle) on the input grid
Prepare ==
  /\ phase = "new"
  /\ order = "row_major"
  /\ \E r \in {prepare(puzzle)} :
        /\ possibilities' = r.self
        /\ result' = r.res
        /\ failed' = (r.res # "ok")
        /\ calls' = {<<RowOf(i), ColOf(i), puzzle[i]>> :
                       i \in {j \in ClueCells(puzzle) : j <= r.cell + 1}}
        /\ entered' = Cardinality(calls')
  /\ phase' = "prepared"
  /\ UNCHANGED <<puzzle, order, extras, last_call, unique_out, solve_out>>
  /\ UNCHANGED other_vars

\* solve(puzzle, max_solutions) on the input grid
Solve ==
  /\ phase = "new"
  /\ order = "row_major"
  /\ \E prepared \in {solve_templates(puzzle)} :
       \E max_solutions \in 0..MaxMaxSolutions :
         \E r \in {solve_search(prepared, max_solutions)} :
           solve_out' = [called |-> TRUE, max_solutions |-> max_solutions,
                         res |-> r.res, solutions |-> r.solutions,
                         strings |-> r.strings]
  /\ phase' = "solved"
  /\ UNCHANGED <<puzzle, order, possibilities, entered, extras, calls,
                 last_call, result, failed, unique_out>>
  /\ UNCHANGED other_vars

Next == SetClue \/ SetExtra \/ Unique \/ Prepare \/ Solve

Spec == Init /\ [][Next]_vars

SolveNext == Prepare \/ Solve

SolveSpec == SolveInit /\ [][SolveNext]_vars

(***************************************************************************)
(* The catalog specification: every layout of one digit (one cell in every *)
(* row, column and box) is put together row by row by the rules alone, to  *)
(* be looked up in the catalog.                                            *)
(***************************************************************************)
\* a cell of row row in column col may join build: no cell of build is in
\* its column or in its box
Fits(build, row, col) ==
  \A x \in build :
    /\ x % 9 # col
    /\ <<(x \div 9) \div 3, (x % 9) \div 3>> # <<row \div 3, col \div 3>>

PlaceCell ==
  /\ layout.row < 9
  /\ \E col \in Idx :
       /\ Fits(layout.build, layout.row, col)
       /\ layout' = [build |-> layout.build \cup {9 * layout.row + col},
                     row   |-> layout.row + 1]
  /\ UNCHANGED solver_vars
  /\ UNCHANGED once_vars
  /\ UNCHANGED <<pattern, operand, steps, yielded>>

CatalogInit == SolverIdle /\ OthersIdle

CatalogNext == PlaceCell

CatalogSpec == CatalogInit /\ [][CatalogNext]_vars

(***************************************************************************)
(* The pattern specification: a caller computes with Pattern values,       *)
(* starting from EMPTY and FULL, making at most MaxOps operations.         *)
(***************************************************************************)
MaxOps == 3

\* the cells <<row, col>> passed to with and remove: the first and the last
\* cell and the cells on both sides of the two word boundaries
PatternCells == {<<0, 0>>, <<3, 4>>, <<3, 5>>, <<7, 0>>, <<7, 1>>, <<8, 8>>}

PatternInit ==
  /\ SolverIdle
  /\ layout = NoLayout
  /\ pattern \in {EMPTY, FULL}
  /\ operand \in {EMPTY, FULL}
  /\ steps = 0
  /\ yielded = NotYielded
  /\ OnceIdle

\* pattern = op(pattern), one more operation made
Operate(result_pattern) ==
  /\ steps < MaxOps
  /\ pattern' = result_pattern
  /\ steps' = steps + 1
  /\ yielded' = NotYielded
  /\ UNCHANGED <<operand, layout>>
  /\ UNCHANGED solver_vars
  /\ UNCHANGED once_vars

With == \E c \in PatternCells : Operate(with(pattern, c[1], c[2]))

Remove == \E c \in PatternCells : Operate(remove(pattern, c[1], c[2]))

And == Operate(BitAnd(pattern, operand))

Or == Operate(BitOr(pattern, operand))

Complement == Operate(Not(pattern))

\* the caller keeps a copy of pattern
Keep ==
  /\ operand # pattern
  /\ operand' = pattern
  /\ UNCHANGED <<pattern, steps, layout, yielded>>
  /\ UNCHANGED solver_vars
  /\ UNCHANGED once_vars

PatternNext == With \/ Remove \/ And \/ Or \/ Complement \/ Keep

PatternSpec == PatternInit /\ [][PatternNext]_vars

(***************************************************************************)
(* The once specification: NumThreads threads call Template::all, each at  *)
(* most MaxCalls times.  OnceLock::get_or_init is modelled by the steps of *)
(* its implementation in std: the check for a value, the entry into the    *)
(* Once (one thread becomes the one that runs the closure, the others      *)
(* block until it is complete), the closure, and the return.               *)
(***************************************************************************)
NumThreads == 3

MaxCalls == 1

Threads == 1..NumThreads

\* what fill pushes in the iteration for column col of its outermost loop
Piece(col) == fill(with(EMPTY, 0, col), {col}, {col \div 3}, 1)

Pieces == <<Piece(0), Piece(1), Piece(2), Piece(3), Piece(4),
            Piece(5), Piece(6), Piece(7), Piece(8)>>

RECURSIVE VecLen(_)
\* vec.len() after the iterations for the columns before col
VecLen(col) == IF col = 0 THEN 0 ELSE VecLen(col - 1) + Len(Pieces[col])

\* the Once entered as if no thread were running the closure
call_once_unguarded(state) ==
  IF state = "complete" THEN "return" ELSE "closure"

\* Once::call_once_force: where the calling thread goes
call_once(state) ==
  IF state = "complete" THEN "return"
  ELSE IF state = "running" THEN "blocked"
  ELSE "closure"

OnceInit ==
  /\ SolverIdle
  /\ layout = NoLayout
  /\ pattern = EMPTY
  /\ operand = EMPTY
  /\ steps = 0
  /\ yielded = NotYielded
  /\ ALL = Uninitialised
  /\ threads = [t \in Threads |-> NotStarted]
  /\ runs = 0

OnceFrame ==
  /\ UNCHANGED solver_vars
  /\ UNCHANGED <<layout, pattern, operand, steps, yielded>>

\* the thread returns from Template::all with the array of ALL
Returned(th) ==
  [th EXCEPT !.pc = "idle", !.seen = ALL.value, !.calls = @ + 1]

\* Template::all is called: get_or_init looks for a value first
Call(t) ==
  /\ threads[t].pc = "idle"
  /\ threads[t].calls < MaxCalls
  /\ threads' = [threads EXCEPT ![t] =
                   IF ALL.state = "complete" THEN Returned(@)
                   ELSE [@ EXCEPT !.pc = "initialize"]]
  /\ UNCHANGED <<ALL, runs>>
  /\ OnceFrame

\* initialize: the thread enters the Once
Enter(t) ==
  /\ threads[t].pc = "initialize"
  /\ \E to \in {call_once(ALL.state)} :
       /\ threads' = [threads EXCEPT ![t] =
                        IF to = "return" THEN Returned(@)
                        ELSE [@ EXCEPT !.pc = to, !.col = 0]]
       /\ ALL' = IF to = "closure" THEN [ALL EXCEPT !.state = "running"] ELSE ALL
       /\ runs' = IF to = "closure" THEN runs + 1 ELSE runs
  /\ OnceFrame

\* the closure: one iteration of the outermost loop of fill
FillColumn(t) ==
  /\ threads[t].pc = "closure"
  /\ threads[t].col < 9
  /\ threads' = [threads EXCEPT ![t].col = @ + 1]
  /\ UNCHANGED <<ALL, runs>>
  /\ OnceFrame

\* the closure returns leak_vec_as_array(vec), which becomes the value of
\* ALL; a panic of its assertion leaves the Once poisoned
Publish(t) ==
  /\ threads[t].pc = "closure"
  /\ threads[t].col = 9
  /\ IF leak_vec_as_array_panics([i \in 1..VecLen(threads[t].col) |-> i], CatalogLen)
     THEN /\ ALL' = [ALL EXCEPT !.state = "poisoned"]
          /\ threads' = [threads EXCEPT ![t].pc = "panicked"]
     ELSE /\ ALL' = [state |-> "complete", value |-> threads[t].col]
          /\ threads' = [threads EXCEPT ![t] =
                           [@ EXCEPT !.pc = "idle", !.seen = threads[t].col,
                                     !.calls = @ + 1]]
  /\ UNCHANGED runs
  /\ OnceFrame

\* a blocked thread goes on when the Once is no longer running
Wake(t) ==
  /\ threads[t].pc = "blocked"
  /\ ALL.state # "running"
  /\ threads' = [threads EXCEPT ![t] =
                   IF ALL.state = "complete" THEN Returned(@)
                   ELSE [@ EXCEPT !.pc = "initialize"]]
  /\ UNCHANGED <<ALL, runs>>
  /\ OnceFrame

OnceNext ==
  \E t \in Threads : Call(t) \/ Enter(t) \/ FillColumn(t) \/ Publish(t) \/ Wake(t)

OnceSpec == OnceInit /\ [][OnceNext]_vars

(***************************************************************************)
(* The within specification: a caller makes a pattern from EMPTY or FULL   *)
(* by at most MaxWithinOps operations (adding the cells of a template,     *)
(* removing a cell, complementing) and asks for the templates within it.   *)
(***************************************************************************)
MaxWithinOps == 3

\* the templates whose cells are added: the first two and the last entry of
\* the catalog and one from the middle
SampleTemplates == {0, 1, 12345, 46655}

WithinInit ==
  /\ SolverIdle
  /\ layout = NoLayout
  /\ pattern \in {EMPTY, FULL}
  /\ operand = EMPTY
  /\ steps = 0
  /\ yielded = NotYielded
  /\ OnceIdle

OrTemplate ==
  /\ steps < MaxWithinOps
  /\ \E t \in SampleTemplates : Operate(BitOr(pattern, as_pattern(t)))

RemoveCell == steps < MaxWithinOps /\ Remove

ComplementIt == steps < MaxWithinOps /\ Complement

\* Template::within(pattern), collected
Within ==
  /\ ~yielded.called
  /\ yielded' = [called |-> TRUE, templates |-> within(pattern)]
  /\ UNCHANGED <<layout, pattern, operand, steps>>
  /\ UNCHANGED solver_vars
  /\ UNCHANGED once_vars

WithinNext == OrTemplate \/ RemoveCell \/ ComplementIt \/ Within

WithinSpec == WithinInit /\ [][WithinNext]_vars

(***************************************************************************)
(* Properties of solve.                                                    *)
(***************************************************************************)
Min(a, b) == IF a <= b THEN a ELSE b

SeqToSet(q) == {q[k] : k \in 1..Len(q)}

\* C1: every solution solve returns is valid: the patterns of its nine
\* templates are pairwise disjoint and together cover the 81 cells, every
\* row, column and box of the string written holds each digit once, and
\* formatting does not panic (one string is written per solution).
C1_SolutionsValid ==
  solve_out.called =>
    /\ solve_out.res = "ok"
    /\ Len(solve_out.strings) = Len(solve_out.solutions)
    /\ \A k \in 1..Len(solve_out.solutions) :
         LET s == solve_out.solutions[k]
         IN /\ \A d1 \in Idx, d2 \in Idx :
                 d1 # d2 => as_pattern(s[d1]) \cap as_pattern(s[d2]) = {}
            /\ UNION {as_pattern(s[d]) : d \in Idx} = 0..80
            /\ ValidGrid(solve_out.strings[k])

C1_Witness ==
  /\ solve_out.called
  /\ Len(solve_out.strings) >= 2
  /\ Holes(puzzle) # {}

\* C2: every solution solve returns holds, at every cell where the input
\* grid has a clue, the digit of that clue.
C2_SolutionsKeepClues ==
  solve_out.called =>
    \A k \in 1..Len(solve_out.strings) : Agrees(solve_out.strings[k], puzzle)

C2_Witness ==
  /\ solve_out.called
  /\ Len(solve_out.strings) >= 1
  /\ ClueCells(puzzle) # {}
  /\ Cardinality(Holes(puzzle)) >= 20

\* C3: solve returns at most max_solutions solutions, for every value of
\* max_solutions, 0 included.
C3_AtMostMaxSolutions ==
  solve_out.called => Len(solve_out.strings) <= solve_out.max_solutions

\* C4: with N the number of valid completions of the input grid and
\* max_solutions >= 1, solve returns exactly min(N, max_solutions) strings,
\* pairwise distinct and each a valid completion of the grid; when
\* N < max_solutions they are all the completions.  (The completions are
\* counted up to MaxMaxSolutions + 1, which is more than max_solutions.)
C4_SolveComplete ==
  (solve_out.called /\ solve_out.max_solutions >= 1) =>
    LET completions == Completions(puzzle, MaxMaxSolutions + 1)
        strings     == solve_out.strings
    IN /\ solve_out.res = "ok"
       /\ Len(strings) = Min(Len(completions), solve_out.max_solutions)
       /\ \A j \in 1..Len(strings), k \in 1..Len(strings) :
            j # k => strings[j] # strings[k]
       /\ \A k \in 1..Len(strings) :
            ValidGrid(strings[k]) /\ Agrees(strings[k], puzzle)
       /\ Len(completions) < solve_out.max_solutions =>
            SeqToSet(strings) = SeqToSet(completions)

C4_Witness ==
  /\ solve_out.called
  /\ solve_out.max_solutions = 3
  /\ Len(solve_out.strings) = 2

(***************************************************************************)
(* Properties of the engine.                                               *)
(***************************************************************************)
\* C5: as long as every set call has succeeded (the fresh engine included),
\* every counter equals the number of candidates it tracks: the digits still
\* possible in the cell, and the cells of the row, column or box where the
\* digit is still possible.
C5_CountersAreLive ==
  ~failed =>
    LET self == possibilities
    IN /\ \A r \in Idx, c \in Idx :
            self.cell_constraints[r][c] = Cardinality(Candidates(self, r, c))
       /\ \A r \in Idx, d \in Idx :
            self.row_constraints[r][d] =
              Cardinality({c \in Idx : has(self.patterns[d], r, c)})
       /\ \A c \in Idx, d \in Idx :
            self.col_constraints[c][d] =
              Cardinality({r \in Idx : has(self.patterns[d], r, c)})
       /\ \A b \in Idx, d \in Idx :
            self.box_constraints[b][d] =
              Cardinality({i \in 1..81 : BoxOf(i) = b /\ (i - 1) \in self.patterns[d]})

C5_Witness ==
  /\ ~failed
  /\ phase = "setting"
  /\ \E r \in Idx, c \in Idx : possibilities.cell_constraints[r][c] = 1
  /\ \E r \in Idx, c \in Idx : possibilities.cell_constraints[r][c] \in 2..8
  /\ \E b \in Idx, d \in Idx : possibilities.box_constraints[b][d] \in 2..8

\* two different cells of one row, column or box hold the same clue
HasDuplicate(g) ==
  \E i \in ClueCells(g), j \in ClueCells(g) : j \in Peers[i] /\ g[i] = g[j]

C6_WitnessSet ==
  phase = "setting" /\ ~last_call.failed_before /\ ~last_call.had /\ result = "err"

C8_SetIdempotent ==
  [][ (/\ phase' = "setting"
       /\ entered' + extras' = entered + extras + 1
       /\ ~failed
       /\ last_call'.forced)
      => /\ result' = "ok"
         /\ possibilities'.patterns = possibilities.patterns
         /\ possibilities'.cell_constraints = possibilities.cell_constraints
         /\ possibilities'.row_constraints = possibilities.row_constraints
         /\ possibilities'.col_constraints = possibilities.col_constraints
         /\ possibilities'.box_constraints = possibilities.box_constraints ]_vars

C8_Witness ==
  /\ phase = "setting"
  /\ last_call.forced
  /\ ~last_call.failed_before
  /\ result = "ok"
  /\ <<last_call.row, last_call.col, last_call.digit>> \in ExtraCalls

(***************************************************************************)
(* Properties of unique.                                                   *)
(***************************************************************************)
\* the catalog entries (by index) that are subsets of a pattern
TemplatesIn(p) == {t \in 0..(Len(all) - 1) : all[t + 1] \subseteq p}

\* C9: unique() returns a Solution exactly when every digit has exactly one
\* catalog template inside its pattern and these nine templates are pairwise
\* disjoint, and the Solution is then made of these nine templates.
C9_UniqueCharacterised ==
  unique_out.called =>
    LET one == \A d \in Idx : Cardinality(TemplatesIn(possibilities.patterns[d])) = 1
        the(d) == CHOOSE t \in TemplatesIn(possibilities.patterns[d]) : TRUE
        chosen == <<the(0), the(1), the(2), the(3), the(4), the(5), the(6), the(7), the(8)>>
        disjoint == \A j \in 1..9, k \in 1..9 :
                      j # k => all[chosen[j] + 1] \cap all[chosen[k] + 1] = {}
    IN IF one /\ disjoint
       THEN /\ unique_out.ret.some
            /\ \A d \in Idx : unique_out.ret.value[d] = chosen[d + 1]
       ELSE ~unique_out.ret.some

C9_Witness ==
  /\ unique_out.called
  /\ unique_out.ret.some
  /\ Cardinality(Holes(puzzle)) > 60

\* the grid of the clues passed to set so far
ClueGrid ==
  SubSeq([i \in 1..81 |->
            IF \E c \in calls : At(c[1], c[2]) = i
            THEN (CHOOSE c \in calls : At(c[1], c[2]) = i)[3]
            ELSE 0], 1, 81)

\* C10: when every set call has succeeded and the clues set have exactly one
\* valid completion, unique() returns that completion.  (Stated for the
\* grids with at most MaxHoles empty cells.)
C10_UniqueFindsTheSolution ==
  (unique_out.called /\ ~failed /\ Cardinality(Holes(ClueGrid)) <= MaxHoles) =>
    LET completions == Completions(ClueGrid, 2)
    IN Len(completions) = 1 =>
         /\ unique_out.ret.some
         /\ SubSeq(to_grid(unique_out.ret.value), 1, 81) = completions[1]

(***************************************************************************)
(* Properties of the catalog.                                              *)
(***************************************************************************)
\* the patterns of the catalog, as a set
CatalogSet == {all[i] : i \in 1..Len(all)}

\* p has nine cells, one in every row, in every column and in every box
IsLayout(p) ==
  /\ Cardinality(p) = 9
  /\ p \subseteq 0..80
  /\ {x \div 9 : x \in p} = Idx
  /\ {x % 9 : x \in p} = Idx
  /\ {((x \div 9) \div 3) * 3 + ((x % 9) \div 3) : x \in p} = Idx

CatalogFacts ==
  /\ ~all_panics
  /\ Len(all) = 46656
  /\ Cardinality(CatalogSet) = Len(all)
  /\ \A i \in 1..Len(all) : IsLayout(all[i])

\* C11: the catalog has 46656 entries (the length assertion of
\* leak_vec_as_array holds), pairwise distinct, each with nine cells, one in
\* every row, in every column and in every box; and every such layout, put
\* together row by row by the rules, is an entry of the catalog.
C11_CatalogIsTheLayouts ==
  /\ CatalogFacts
  /\ layout.row = 9 => (IsLayout(layout.build) /\ layout.build \in CatalogSet)

C11_Witness ==
  /\ layout.row = 9
  /\ layout.build \in CatalogSet
  /\ layout.build # all[1]
  /\ 80 \notin layout.build

(***************************************************************************)
(* Properties of Pattern.                                                  *)
(***************************************************************************)
\* C14: a Pattern reached from EMPTY and FULL through with, remove, &, |
\* and ! (rows and columns 0..8) has no bit beyond position 80, and for such
\* a pattern !!p = p, p & !p = EMPTY and p | !p = FULL.
C14_UniverseIs81 ==
  /\ pattern \subseteq 0..80
  /\ operand \subseteq 0..80
  /\ Not(pattern) \subseteq 0..80
  /\ Not(Not(pattern)) = pattern
  /\ BitAnd(pattern, Not(pattern)) = EMPTY
  /\ BitOr(pattern, Not(pattern)) = FULL

\* a pattern made with a complement and other operations that is neither
\* empty nor full and has cells in the third word
C14_Witness ==
  /\ steps = MaxOps
  /\ pattern \notin {EMPTY, FULL}
  /\ Cardinality(pattern) > 70
  /\ 80 \notin pattern
  /\ 64 \in pattern
  /\ operand \notin {EMPTY, FULL}

(***************************************************************************)
(* Properties of within.                                                   *)
(***************************************************************************)
\* C12: within(p) yields the indices of exactly the catalog entries that
\* are subsets of p, each once and in catalog order (strictly increasing
\* indices, none truncated by the conversion to u16), and as_pattern of a
\* yielded template is the catalog entry at its index and a subset of p.
C12_WithinIsTheSubsets ==
  yielded.called =>
    LET ts == yielded.templates
    IN /\ SeqToSet(ts) = {i - 1 : i \in {j \in 1..Len(all) : all[j] \subseteq pattern}}
       /\ \A k \in 1..(Len(ts) - 1) : ts[k] < ts[k + 1]
       /\ \A k \in 1..Len(ts) :
            /\ as_pattern(ts[k]) = all[ts[k] + 1]
            /\ as_pattern(ts[k]) \subseteq pattern

\* within has yielded several templates, but not all, the last entry of
\* the catalog among them
C12_Witness ==
  /\ yielded.called
  /\ Len(yielded.templates) \in 2..1000
  /\ yielded.templates[Len(yielded.templates)] = 46655
  /\ steps = MaxWithinOps

(***************************************************************************)
(* Properties of the shared catalog.                                       *)
(***************************************************************************)
\* the arrays, named by their number of columns, that are the whole catalog
Built == {n \in 0..9 : n = 9 /\ Pieces[1] \o Pieces[2] \o Pieces[3] \o Pieces[4]
                                \o Pieces[5] \o Pieces[6] \o Pieces[7] \o Pieces[8]
                                \o Pieces[9] = all}

\* C13: however the first calls of Template::all interleave, the closure
\* that generates the catalog is started at most once, every call that has
\* returned returned the whole catalog (so all callers the same array), no
\* thread panics, and the value of ALL does not change once it is complete.
C13_CatalogInitialisedOnce ==
  /\ [](/\ runs <= 1
        /\ \A t \in DOMAIN threads :
             /\ threads[t].pc # "panicked"
             /\ threads[t].calls > 0 => threads[t].seen \in Built
        /\ ALL.state = "complete" => ALL.value \in Built)
  /\ [][ALL.state = "complete" => ALL' = ALL]_vars

\* every thread has made its calls and was returned the whole catalog, the
\* closure having run once
C13_Witness ==
  /\ threads # <<>>
  /\ \A t \in DOMAIN threads : threads[t].calls = MaxCalls /\ threads[t].seen \in Built
  /\ runs = 1

(***************************************************************************)
(* Properties of propagation.                                              *)
(***************************************************************************)
\* the rows, the columns and the boxes, each as the set of its cells 1..81
Houses ==
  {{i \in 1..81 : RowOf(i) = h} : h \in Idx}
    \cup {{i \in 1..81 : ColOf(i) = h} : h \in Idx}
    \cup {{i \in 1..81 : BoxOf(i) = h} : h \in Idx}

\* digit index d is the only candidate of cell i (1..81)
OnlyCandidate(self, i, d) ==
  \A e \in Idx : ((i - 1) \in self.patterns[e]) <=> (e = d)

\* C15: after a set call (or prepare) that succeeded, like every call before
\* it, the work queue is empty; the only candidate of a cell is a candidate
\* of no other cell of its row, column or box; and when a digit has one cell
\* left in a row, column or box, it is the only candidate of that cell.
C15_FixedPoint ==
  (phase \in {"setting", "prepared"} /\ ~failed) =>
    /\ result = "ok"
    /\ possibilities.work_queue = <<>>
    /\ \A d \in Idx :
         \A i \in 1..81 :
           OnlyCandidate(possibilities, i, d) =>
             \A j \in Peers[i] : (j - 1) \notin possibilities.patterns[d]
    /\ \A house \in Houses, d \in Idx :
         \A i \in house :
           (\A j \in house : ((j - 1) \in possibilities.patterns[d]) <=> (j = i))
             => OnlyCandidate(possibilities, i, d)

\* a successful call after which propagation has decided cells that no call
\* set, while other cells still have several candidates
C15_Witness ==
  /\ phase = "setting"
  /\ ~failed
  /\ \E i \in 1..81 :
       /\ Cardinality(Candidates(possibilities, RowOf(i), ColOf(i))) = 1
       /\ \A c \in calls : At(c[1], c[2]) # i
  /\ \E i \in 1..81 : Cardinality(Candidates(possibilities, RowOf(i), ColOf(i))) > 2

(***************************************************************************)
(* The reuse specification: the caller goes on making set calls on an      *)
(* engine after a set call returned Err(Contradiction).                    *)
(***************************************************************************)
\* the set calls made after a failure, <<row, col, digit>>: the second clue
\* of DupRow, of DupCol and of DupBox again, and calls on other cells
AgainCalls ==
  { <<0, 3, 5>>, <<6, 4, 7>>, <<4, 5, 2>>, <<0, 0, 1>>, <<4, 4, 4>>, <<8, 8, 1>>, <<8, 8, 2>> }

\* the puzzles of the reuse specification: each holds a contradiction
ReusePuzzles == {DupRow, DupCol, DupBox, Put(Blank(Solved, RectA), At(8, 8), 1)}

\* the first set call on an engine after a set call of it failed
SetAgain ==
  /\ phase = "setting"
  /\ failed
  /\ result = "err"
  /\ ~last_call.failed_before
  /\ \E e \in AgainCalls : DoSet(e[1], e[2], e[3])
  /\ UNCHANGED <<entered, extras>>

ReuseInit == InitWith(ReusePuzzles)

ReuseNext == SetClue \/ SetExtra \/ SetAgain

ReuseSpec == ReuseInit /\ [][ReuseNext]_vars

\* C16: a set call made on an engine after one of its set calls returned
\* Err(Contradiction) returns Err(Contradiction) too.
C16_FailureIsFinal ==
  (last_call.made /\ last_call.failed_before) => result = "err"

(***************************************************************************)
(* The work specification: a set call is followed through the loop of      *)
(* work, one iteration (pop and eliminate, or the exit of the loop) at a   *)
(* time.  While a call is under way phase is "working" and result is       *)
(* "run".  The caller stops at the first failure.                          *)
(***************************************************************************)
\* the puzzles whose clues are entered in the work specification
WorkPuzzles ==
  {Bench17, Hard23, Stuck30, Blank(Solved, RectA),
   Put(Blank(Solved, RectA), At(8, 8), 1), DupRow, DupCol, DupBox}

\* set, up to the call of work: enqueue_others
BeginSet(row, col, digit) ==
  /\ possibilities' = enqueue_others(possibilities, row, col, digit - 1)
  /\ result' = "run"
  /\ calls' = calls \cup {<<row, col, digit>>}
  /\ last_call' = [made |-> TRUE, row |-> row, col |-> col, digit |-> digit,
                   had |-> (digit - 1) \in Candidates(possibilities, row, col),
                   forced |-> Candidates(possibilities, row, col) = {digit - 1},
                   failed_before |-> failed]
  /\ phase' = "working"
  /\ UNCHANGED <<puzzle, order, failed, unique_out, solve_out>>
  /\ UNCHANGED other_vars

\* the caller enters the next clue of its puzzle
BeginClue ==
  /\ phase \in {"new", "setting"}
  /\ ~failed
  /\ entered < Cardinality(ClueCells(puzzle))
  /\ LET i == NthClue(puzzle, order, entered + 1)
     IN BeginSet(RowOf(i), ColOf(i), puzzle[i])
  /\ entered' = entered + 1
  /\ UNCHANGED extras

\* the caller makes another set call once the clues of its puzzle are in
BeginExtra ==
  /\ phase \in {"new", "setting"}
  /\ ~failed
  /\ entered = Cardinality(ClueCells(puzzle))
  /\ extras < MaxExtra
  /\ \E e \in ExtraCalls : BeginSet(e[1], e[2], e[3])
  /\ extras' = extras + 1
  /\ UNCHANGED entered

\* one iteration of the loop of work; the call returns when the queue is
\* empty (Ok) or eliminate did not return Ok
WorkStep ==
  /\ phase = "working"
  /\ \E r \in {work_iter(Ret(possibilities, "run"))} :
       /\ possibilities' = r.self
       /\ result' = r.res
       /\ phase' = IF r.res = "run" THEN "working" ELSE "setting"
       /\ failed' = (r.res \in {"err", "panic"})
  /\ UNCHANGED <<puzzle, order, entered, extras, calls, last_call,
                 unique_out, solve_out>>
  /\ UNCHANGED other_vars

WorkInit == InitWith(WorkPuzzles)

WorkNext == BeginClue \/ BeginExtra \/ WorkStep

WorkSpec == WorkInit /\ [][WorkNext]_vars

\* C17: in the set calls made on a fresh engine until one fails, that one
\* included, no step of work panics, and whenever a step brings a cell, row,
\* column or box counter to one, the lookup that follows (find_in_cell,
\* find_in_row, find_in_col, find_in_box, on the patterns the step leaves)
\* has exactly one candidate to find.
C17_LookupsFindOne ==
  [][phase = "working" =>
       /\ result' # "panic"
       /\ \A a \in Idx, b \in Idx :
            /\ (/\ possibilities.cell_constraints[a][b] # 1
                /\ possibilities'.cell_constraints[a][b] = 1)
                 => Cardinality(Candidates(possibilities', a, b)) = 1
            /\ (/\ possibilities.row_constraints[a][b] # 1
                /\ possibilities'.row_constraints[a][b] = 1)
                 => Cardinality({c \in Idx : has(possibilities'.patterns[b], a, c)}) = 1
            /\ (/\ possibilities.col_constraints[a][b] # 1
                /\ possibilities'.col_constraints[a][b] = 1)
                 => Cardinality({r \in Idx : has(possibilities'.patterns[b], r, a)}) = 1
            /\ (/\ possibilities.box_constraints[a][b] # 1
                /\ possibilities'.box_constraints[a][b] = 1)
                 => Cardinality({i \in 1..81 : BoxOf(i) = a
                                   /\ (i - 1) \in possibilities'.patterns[b]}) = 1
    ]_vars

\* a call is under way, entries are waiting in the queue, and counters of
\* each of the four tables have come down to one
C17_Witness ==
  /\ phase = "working"
  /\ possibilities.work_queue # <<>>
  /\ \E a \in Idx, b \in Idx : possibilities.cell_constraints[a][b] = 1
  /\ \E a \in Idx, b \in Idx : possibilities.row_constraints[a][b] = 1
  /\ \E a \in Idx, b \in Idx : possibilities.col_constraints[a][b] = 1
  /\ \E a \in Idx, b \in Idx : possibilities.box_constraints[a][b] = 1

\* The work specification with its scheduling: a call that is under way
\* goes on running, so the loop of work keeps taking its next iteration.
FairPuzzles == {Bench17, DupRow, DupCol, DupBox}

WorkFairInit == InitWith(FairPuzzles) /\ order = "row_major"

WorkFairSpec == WorkFairInit /\ [][WorkNext]_vars /\ WF_vars(WorkStep)

\* C18: every set call made on an engine whose set calls all succeeded
\* returns: the loop of work ends, with Ok when the queue is empty or with
\* Err when a counter reached zero.
C18_SetReturns ==
  (phase = "working") ~> (phase = "setting" /\ result \in {"ok", "err"})

\* a call has returned Ok after entries enqueued by eliminate made the loop
\* decide a cell that no call set
C18_Witness ==
  /\ phase = "setting"
  /\ result = "ok"
  /\ possibilities.work_queue = <<>>
  /\ \E a \in Idx, b \in Idx :
       /\ possibilities.cell_constraints[a][b] = 1
       /\ \A c \in calls : <<c[1], c[2]>> # <<a, b>>

\* the entry the next iteration of work pops: <<row, col, digit>>
NextEntry == possibilities.work_queue[Len(possibilities.work_queue)]

\* the digit of the entry the next iteration pops is not a candidate of its
\* cell any more
PopsAbsentDigit ==
  /\ phase = "working"
  /\ possibilities.work_queue # <<>>
  /\ ~has(possibilities.patterns[NextEntry[3]], NextEntry[1], NextEntry[2])

\* C19: an iteration of work that pops an elimination whose digit is already
\* absent from the cell only takes the entry off the queue: the nine
\* patterns and the four counter tables stay as they are, nothing is
\* enqueued, and the loop goes on without an error.
C19_AbsentDigitIsNoOp ==
  [][PopsAbsentDigit =>
       /\ possibilities' =
            [possibilities EXCEPT
               !.work_queue = SubSeq(@, 1, Len(@) - 1)]
       /\ result' = "run"
       /\ phase' = "working"
       /\ failed' = failed
    ]_vars

\* such an entry is about to be popped in the middle of a cascade: counters
\* have come down to one and other entries wait below it
C19_Witness ==
  /\ PopsAbsentDigit
  /\ Len(possibilities.work_queue) > 8
  /\ possibilities.cell_constraints[NextEntry[1]][NextEntry[2]] = 1
  /\ \E a \in Idx, b \in Idx : possibilities.row_constraints[a][b] = 1

(***************************************************************************)
(* Soundness of propagation, against completed grids known beforehand.     *)
(***************************************************************************)
\* the completion of Bench17
Bench17Solution ==
  << 7,4,5, 3,6,8, 9,1,2,
     8,1,9, 5,7,2, 4,6,3,
     3,6,2, 4,9,1, 8,5,7,
     6,9,3, 8,2,4, 5,7,1,
     4,2,1, 6,5,7, 3,9,8,
     5,8,7, 1,3,9, 6,2,4,
     1,5,8, 7,4,6, 2,3,9,
     9,7,6, 2,8,3, 1,4,5,
     2,3,4, 9,1,5, 7,8,6 >>

\* Solved with the digits of RectA swapped
SolvedTwin ==
  Put(Put(Put(Put(Solved, At(0, 2), Solved[At(0, 5)]), At(0, 5), Solved[At(0, 2)]),
          At(1, 2), Solved[At(1, 5)]), At(1, 5), Solved[At(1, 2)])

\* completed grids that obey the rules
CompletedGrids == {g \in {Solved, SolvedTwin, Bench17Solution} : ValidGrid(g)}

\* g has the digit of every set call made so far
AgreesWithCalls(g) == \A c \in calls : g[At(c[1], c[2])] = c[3]

\* C20: when a valid completed grid has the digit of every set call made so
\* far, none of these calls failed and the digit of the grid is still a
\* candidate in every cell.
C20_PropagationSound ==
  \A g \in CompletedGrids :
    AgreesWithCalls(g) =>
      /\ ~failed
      /\ \A i \in 1..81 : (i - 1) \in possibilities.patterns[g[i] - 1]

\* set calls that agree with one of the three completed grids have made
\* propagation decide cells that no call set
C20_Witness ==
  /\ Cardinality(CompletedGrids) = 3
  /\ phase = "setting"
  /\ calls # {}
  /\ \E g \in CompletedGrids : AgreesWithCalls(g)
  /\ \E a \in Idx, b \in Idx :
       /\ Cardinality(Candidates(possibilities, a, b)) = 1
       /\ \A c \in calls : <<c[1], c[2]>> # <<a, b>>

(***************************************************************************)
(* The order specification: the caller enters the clues of its puzzle in   *)
(* an order of its own, taking at each call the first or the last clue (in *)
(* row-major order) that it has not entered yet, and stops at the first    *)
(* failure.                                                                *)
(***************************************************************************)
\* the digits 1 to 8 in the first eight cells of row 0, which leaves 9 for
\* the last cell of the row
Row8 == [i \in 1..81 |-> IF i <= 8 THEN i ELSE 0]

\* Row8 with a 9 further down the last column: the last cell of row 0 has
\* no digit left, though no two clues are the same digit
Squeezed == Put(Row8, At(5, 8), 9)

\* Row8 with a second 7 in the last cell of the row
Row8Dup == Put(Row8, At(0, 8), 7)

\* the puzzles of the order specification
OrderPuzzles ==
  {Bench17, Put(Bench17, At(0, 0), 3), Row8, Squeezed, Row8Dup,
   DupRow, DupCol, DupBox}

\* the clue cells of the puzzle that no set call was made for
Remaining == {i \in ClueCells(puzzle) : <<RowOf(i), ColOf(i), puzzle[i]>> \notin calls}

SetCell(i) ==
  /\ phase \in {"new", "setting"}
  /\ ~failed
  /\ DoSet(RowOf(i), ColOf(i), puzzle[i])
  /\ entered' = entered + 1
  /\ UNCHANGED extras

\* the caller enters the first of the remaining clues
SetFront ==
  /\ Remaining # {}
  /\ \E i \in Remaining : (\A j \in Remaining : i <= j) /\ SetCell(i)

\* the caller enters the last of the remaining clues
SetBack ==
  /\ Remaining # {}
  /\ \E i \in Remaining : (\A j \in Remaining : i >= j) /\ SetCell(i)

OrderInit == InitWith(OrderPuzzles) /\ order = "row_major"

OrderNext == SetFront \/ SetBack

OrderSpec == OrderInit /\ [][OrderNext]_vars

\* C21: whatever the order in which the caller entered its clues, the engine
\* is where entering the same clues in row-major order (as prepare does)
\* brings a fresh engine: both failed, or both succeeded with the same nine
\* patterns and the same cell, row, column and box counters.
C21_OrderIndependent ==
  \E r \in {prepare(ClueGrid)} :
    /\ failed <=> (r.res # "ok")
    /\ ~failed =>
         /\ possibilities.patterns = r.self.patterns
         /\ possibilities.cell_constraints = r.self.cell_constraints
         /\ possibilities.row_constraints = r.self.row_constraints
         /\ possibilities.col_constraints = r.self.col_constraints
         /\ possibilities.box_constraints = r.self.box_constraints

\* all the clues are in, propagation has decided cells beyond them, and the
\* call made last was for a clue that is neither the first nor the last of
\* the puzzle: the order was neither row-major nor its reverse
C21_Witness ==
  /\ phase = "setting"
  /\ ~failed
  /\ Remaining = {}
  /\ \E i \in ClueCells(puzzle), j \in ClueCells(puzzle) :
       i < At(last_call.row, last_call.col) /\ At(last_call.row, last_call.col) < j
  /\ \E a \in Idx, b \in Idx :
       /\ possibilities.cell_constraints[a][b] = 1
       /\ puzzle[At(a, b)] = 0

(***************************************************************************)
(* unique() against the rules and against solve.                           *)
(***************************************************************************)
\* The unique specification: the caller enters the clues of its puzzle in
\* row-major order, makes extra set calls, and asks for the unique solution
\* once the clues are in.
\* three cells of Solved that the rest of the grid determines
Lone3 == {At(0, 0), At(4, 4), At(8, 8)}

\* the puzzles of the unique specification: with one completion (the first
\* three), with two, and with none
UniquePuzzles ==
  {Bench17, Hard23, Blank(Solved, Lone3), Blank(Solved, RectA), Stuck30}

UniqueInit == InitWith(UniquePuzzles) /\ order = "row_major"

UniqueNext == SetClue \/ SetExtra \/ Unique

UniqueSpec == UniqueInit /\ [][UniqueNext]_vars

\* C22: when every set call has succeeded and unique() returns a Solution,
\* its grid is a valid completed grid that has the digit of every set call,
\* it is the only valid completion of the clues set (looked for by the
\* reference search on grids with at most MaxHoles empty cells), and solve
\* on these clues with max_solutions >= 2 returns that one solution alone.
C22_UniqueIsTheCompletion ==
  (unique_out.called /\ unique_out.ret.some /\ ~failed) =>
    \E g \in {SubSeq(to_grid(unique_out.ret.value), 1, 81)} :
      /\ ValidGrid(g)
      /\ AgreesWithCalls(g)
      /\ (Cardinality(Holes(ClueGrid)) <= MaxHoles) => (Completions(ClueGrid, 2) = <<g>>)
      /\ \A max_solutions \in 2..MaxMaxSolutions :
           \E r \in {solve(ClueGrid, max_solutions)} :
             r.res = "ok" /\ r.strings = <<g>>

\* unique() returned a Solution for clues that leave some cells empty, few
\* enough for the reference search
C22_Witness ==
  /\ unique_out.called
  /\ unique_out.ret.some
  /\ ~failed
  /\ Holes(ClueGrid) # {}
  /\ Cardinality(Holes(ClueGrid)) <= MaxHoles

====
